---- MODULE Spec2Model ----
(***************************************************************************)
(* A model of the TAHO library catalogue (src/app.py): the Category/Book   *)
(* schema, the start-up seeder db_init, and the read handlers search,      *)
(* category and api_category_books.                                        *)
(*                                                                         *)
(* Text is modelled character by character: a string is a sequence of      *)
(* one-character tokens, so that substring search, LIKE patterns, str      *)
(* methods and collation are computed rather than assumed.                 *)
(*                                                                         *)
(* index, book_detail and add_book are not modelled: they write nothing    *)
(* (add_book's POST branch is `pass`).                                     *)
(***************************************************************************)
EXTENDS Integers, Sequences, FiniteSets, TLC

(***************************************************************************)
(* Bounds of the model.                                                    *)
(***************************************************************************)
NProcs == 2
MaxRuns == 2
MaxBooks == 3
MaxPage == 3
MaxPerPage == 3

Procs == 1..NProcs

(***************************************************************************)
(* Characters and strings.                                                 *)
(***************************************************************************)
\* A character is one of the tokens "a" "A" "b" "B" "_" "%" "-" "0" "3" "4" and
\* "SUP2", which stands for the one character U+00B2 (superscript two).

\* The code unit SQLite's BINARY collation compares (first UTF-8 byte).
Code(c) ==
    CASE c = "%" -> 37
      [] c = "-" -> 45
      [] c = "0" -> 48
      [] c = "3" -> 51
      [] c = "4" -> 52
      [] c = "A" -> 65
      [] c = "B" -> 66
      [] c = "_" -> 95
      [] c = "a" -> 97
      [] c = "b" -> 98
      [] c = "SUP2" -> 194

\* SQL lower(): ASCII letters only.
Lower(c) ==
    CASE c = "A" -> "a"
      [] c = "B" -> "b"
      [] OTHER -> c

\* A column that holds SQL NULL, or a request parameter that is absent (None).
NULL == <<"NULL">>

LowerStr(s) == [i \in DOMAIN s |-> Lower(s[i])]

\* SQL's  s LIKE pat : % matches any run of characters, _ any one character.
RECURSIVE Like(_, _)
Like(pat, s) ==
    IF pat = <<>> THEN s = <<>>
    ELSE IF Head(pat) = "%"
         THEN Like(Tail(pat), s) \/ (s # <<>> /\ Like(pat, Tail(s)))
    ELSE /\ s # <<>>
         /\ Head(pat) = "_" \/ Head(pat) = Head(s)
         /\ Like(Tail(pat), Tail(s))

\* column.ilike(pat): lower(column) LIKE lower(pat); NULL is never a match.
ILike(column, pat) == column # NULL /\ Like(LowerStr(pat), LowerStr(column))

\* str.isdigit(): non-empty, every character has the Unicode digit property.
IsDigit(s) == s # <<>> /\ \A i \in DOMAIN s : s[i] \in {"0", "3", "4", "SUP2"}

DigitValue(c) == CASE c = "0" -> 0 [] c = "3" -> 3 [] c = "4" -> 4

\* int(s) for a string that passed isdigit(): ok = FALSE is ValueError, which
\* int raises on a digit that is not a decimal digit.
RECURSIVE IntOf(_)
IntOf(s) ==
    IF s = <<>> THEN [ok |-> TRUE, value |-> 0]
    ELSE LET front == IntOf(SubSeq(s, 1, Len(s) - 1))
             last == s[Len(s)]
         IN IF front.ok /\ last \in {"0", "3", "4"}
            THEN [ok |-> TRUE, value |-> 10 * front.value + DigitValue(last)]
            ELSE [ok |-> FALSE, value |-> 0]

\* s < t in the BINARY collation of SQLite's ORDER BY.
RECURSIVE StrLess(_, _)
StrLess(s, t) ==
    IF t = <<>> THEN FALSE
    ELSE IF s = <<>> THEN TRUE
    ELSE IF Head(s) # Head(t) THEN Code(Head(s)) < Code(Head(t))
    ELSE StrLess(Tail(s), Tail(t))

\* ORDER BY compares a nullable column: NULL sorts below every string.
ColumnLess(x, y) ==
    IF y = NULL THEN FALSE
    ELSE IF x = NULL THEN TRUE
    ELSE StrLess(x, y)

VARIABLES
    categories,   \* committed rows of table category, in rowid order
    books,        \* committed rows of table book, in rowid order
    pc,           \* per process: "stopped", "seeding" (inside db_init), "serving", "crashed"
    idx,          \* per process: position of db_init's loop in its list, 1-based
    pending,      \* per process: names added to the session, not yet flushed
    flushed,      \* per process: rows INSERTed in the open transaction
    writer,       \* process holding SQLite's write lock, 0 when free
    error,        \* per process: the exception that ended db_init, or "none"
    runs,         \* per process: how many times it has been started
    resp          \* the response in flight to the client

vars == <<categories, books, pc, idx, pending, flushed, writer, error, runs, resp>>

(***************************************************************************)
(* Schema (models.py) and the store.                                       *)
(***************************************************************************)
\* db_init's hard-coded list.
SeedNames ==
    <<"Academic", "Criminology", "Fiction", "Thesis",
      "Financial", "Religion", "Self-Growth", "Technology">>

Category(id, name) == [id |-> id, name |-> name]

Book(id, title, author, description, published_date, category_id) ==
    [id |-> id, title |-> title, author |-> author, description |-> description,
     published_date |-> published_date, category_id |-> category_id]

Names(tbl) == {tbl[i].name : i \in DOMAIN tbl}

Ids(tbl) == {tbl[i].id : i \in DOMAIN tbl}

Max(S) == CHOOSE x \in S : \A y \in S : y <= x

\* INTEGER PRIMARY KEY without AUTOINCREMENT: one more than the largest rowid.
NextId(tbl) == IF tbl = <<>> THEN 1 ELSE Max(Ids(tbl)) + 1

\* A table without the unique constraint.
UniqueViolationOff(tbl, name) == FALSE

\* Category.name is declared unique=True: an INSERT of a present name is refused.
UniqueViolation(tbl, name) == name \in Names(tbl)

\* A lookup that has lost its filter: the first row, whatever the name.
CategoryByNameUnfiltered(tbl, name) == SubSeq(tbl, 1, 1)

\* Category.query.filter_by(name=...).first(): exact comparison of the name.
CategoryByName(tbl, name) ==
    IF \E i \in DOMAIN tbl : tbl[i].name = name
    THEN <<tbl[CHOOSE i \in DOMAIN tbl :
                /\ tbl[i].name = name
                /\ \A j \in DOMAIN tbl : tbl[j].name = name => i <= j]>>
    ELSE <<>>

\* A seeder whose check never finds the name.
AbsentAlways(tbl, name) == TRUE

\* db_init's test `not Category.query.filter_by(name=category_name).first()`.
Absent(tbl, name) == CategoryByName(tbl, name) = <<>>

(***************************************************************************)
(* db_init: the seeder.  Each query of the loop first autoflushes the      *)
(* session, so the INSERT of a name happens at the next query or at the    *)
(* commit.  The first INSERT takes the database's write lock, which is     *)
(* held until the transaction ends.                                        *)
(***************************************************************************)
\* A flush of `names` in a transaction that sees `tbl` and has `added` rows of
\* its own: the rows afterwards, or ok = FALSE if an INSERT is refused.
RECURSIVE InsertAll(_, _, _)
InsertAll(tbl, added, names) ==
    IF names = <<>> THEN [ok |-> TRUE, rows |-> added]
    ELSE IF UniqueViolation(tbl \o added, Head(names))
         THEN [ok |-> FALSE, rows |-> added]
    ELSE InsertAll(tbl, Append(added, Category(NextId(tbl \o added), Head(names))),
                   Tail(names))

FlushResult(p) ==
    IF pending[p] = <<>> THEN "noop"
    ELSE IF writer \notin {0, p} THEN "locked"
    ELSE IF ~InsertAll(categories, flushed[p], pending[p]).ok THEN "integrity"
    ELSE "ok"

AfterFlush(p) == InsertAll(categories, flushed[p], pending[p]).rows

\* One pass of the loop body: the query (with its autoflush) and the add.
SeedStep(p) ==
    /\ pc[p] = "seeding"
    /\ idx[p] \in DOMAIN SeedNames
    /\ FlushResult(p) \in {"noop", "ok"}
    /\ LET rows == AfterFlush(p)
           name == SeedNames[idx[p]]
           found == ~Absent(categories \o rows, name)
       IN /\ flushed' = [flushed EXCEPT ![p] = rows]
          /\ writer' = IF rows # <<>> THEN p ELSE writer
          /\ pending' = [pending EXCEPT ![p] = IF found THEN <<>> ELSE <<name>>]
          /\ idx' = [idx EXCEPT ![p] = idx[p] + 1]
    /\ UNCHANGED <<categories, books, pc, error, runs, resp>>

\* db.session.commit(): the last flush, then COMMIT.
Commit(p) ==
    /\ pc[p] = "seeding"
    /\ idx[p] = Len(SeedNames) + 1
    /\ FlushResult(p) \in {"noop", "ok"}
    /\ categories' = categories \o AfterFlush(p)
    /\ flushed' = [flushed EXCEPT ![p] = <<>>]
    /\ pending' = [pending EXCEPT ![p] = <<>>]
    /\ writer' = IF writer = p THEN 0 ELSE writer
    /\ pc' = [pc EXCEPT ![p] = "serving"]
    /\ UNCHANGED <<books, idx, error, runs, resp>>

\* The exception leaves db_init: the transaction is rolled back, app.py stops.
Crash(p, exc) ==
    /\ pc' = [pc EXCEPT ![p] = "crashed"]
    /\ error' = [error EXCEPT ![p] = exc]
    /\ flushed' = [flushed EXCEPT ![p] = <<>>]
    /\ pending' = [pending EXCEPT ![p] = <<>>]
    /\ writer' = IF writer = p THEN 0 ELSE writer
    /\ UNCHANGED <<categories, books, idx, runs, resp>>

\* A flush whose INSERT the unique constraint refuses.
SeedIntegrityError(p) ==
    /\ pc[p] = "seeding"
    /\ FlushResult(p) = "integrity"
    /\ Crash(p, "IntegrityError")

\* A flush that waits for another process's write lock until the busy timeout.
SeedBusyTimeout(p) ==
    /\ pc[p] = "seeding"
    /\ FlushResult(p) = "locked"
    /\ Crash(p, "OperationalError")

\* app.py is run, for the first time or again: db_init(app) begins.
Start(p) ==
    /\ pc[p] \in {"stopped", "serving", "crashed"}
    /\ runs[p] < MaxRuns
    /\ pc' = [pc EXCEPT ![p] = "seeding"]
    /\ idx' = [idx EXCEPT ![p] = 1]
    /\ error' = [error EXCEPT ![p] = "none"]
    /\ runs' = [runs EXCEPT ![p] = runs[p] + 1]
    /\ UNCHANGED <<categories, books, pending, flushed, writer, resp>>

\* The same, at a moment when no other process is inside db_init.
StartAlone(p) ==
    /\ \A q \in Procs : pc[q] # "seeding"
    /\ Start(p)

(***************************************************************************)
(* Book.to_dict and the queries of the read handlers.  The columns         *)
(* cover_image, isbn, publisher, pages and available are copied through    *)
(* unread and are left out.                                                *)
(***************************************************************************)
\* A relationship that joins on nothing: any book gets the first category.
CategoryOfFirst(book) == SubSeq(categories, 1, 1)

\* The backref Book.category: the Category row the foreign key names, if any.
CategoryOf(book) ==
    SelectSeq(categories, LAMBDA c : c.id = book.category_id)

\* to_dict fails (self.category is None) on a book whose category is missing.
ToDictOk(book) == CategoryOf(book) # <<>>

to_dict(book) ==
    [id |-> book.id, title |-> book.title, author |-> book.author,
     description |-> book.description, published_date |-> book.published_date,
     category |-> CategoryOf(book)[1].name]

ToDicts(rows) == [i \in DOMAIN rows |-> to_dict(rows[i])]

\* The three-way OR of search's base query.
TextMatch(book, query) ==
    LET pat == <<"%">> \o query \o <<"%">>
    IN \/ ILike(book.title, pat)
       \/ ILike(book.author, pat)
       \/ ILike(book.description, pat)

\* Book.query.filter_by(category_id=...): a scan, so rows come in rowid order.
BooksOfCategory(category_id) ==
    SelectSeq(books, LAMBDA b : b.category_id = category_id)

\* An ORDER BY whose date option ascends.
BeforeDateAscending(sort_by, a, b) ==
    IF sort_by = "title" THEN StrLess(a.title, b.title)
    ELSE ColumnLess(a.published_date, b.published_date)

\* Does row a come strictly before row b under the ORDER BY of sort_by?
Before(sort_by, a, b) ==
    IF sort_by = "title" THEN StrLess(a.title, b.title)
    ELSE ColumnLess(b.published_date, a.published_date)

\* SQLite's sorter: rows with equal keys keep the order of the scan.
RECURSIVE OrderBy(_, _)
OrderBy(rows, sort_by) ==
    IF rows = <<>> THEN <<>>
    ELSE LET n == Len(rows)
             front == OrderBy(SubSeq(rows, 1, n - 1), sort_by)
             x == rows[n]
             k == Cardinality({i \in DOMAIN front : ~Before(sort_by, x, front[i])})
         IN SubSeq(front, 1, k) \o <<x>> \o SubSeq(front, k + 1, n - 1)

\* api_category_books' sort options; anything else leaves the query unordered.
Sorted(rows, sort_by) ==
    IF sort_by \in {"title", "date"} THEN OrderBy(rows, sort_by) ELSE rows

Min(a, b) == IF a < b THEN a ELSE b

\* A pagination whose pages are numbered from 0.
PaginateFromZero(rows, page, per_page) ==
    LET total == Len(rows)
    IN [items |-> SubSeq(rows, page * per_page + 1, Min((page + 1) * per_page, total)),
        page |-> page,
        per_page |-> per_page,
        total |-> total,
        pages |-> (total + per_page - 1) \div per_page]

\* query.paginate(page=, per_page=, error_out=False) for page, per_page >= 1.
Paginate(rows, page, per_page) ==
    LET total == Len(rows)
    IN [items |-> SubSeq(rows, (page - 1) * per_page + 1, Min(page * per_page, total)),
        page |-> page,
        per_page |-> per_page,
        total |-> total,
        pages |-> (total + per_page - 1) \div per_page]

\* request.args.get(name, default, type=int); a parameter is <<>> when absent.
DefaultPage == 1
DefaultPerPage == 10
ArgInt(arg, default) == IF arg = <<>> THEN default ELSE arg[1]

\* A search that takes every query as given.
QueryGivenAlways(query) == TRUE

\* search's test `if query:`.
QueryGiven(query) == query # <<>>

\* A listing that slices the unordered query and sorts the slice.
ApiPageSortsSlice(category_id, sort_by, page, per_page) ==
    LET pagination == Paginate(BooksOfCategory(category_id), page, per_page)
    IN [pagination EXCEPT !.items = Sorted(pagination.items, sort_by)]

\* api_category_books' query: filter, then order, then paginate.
ApiPage(category_id, sort_by, page, per_page) ==
    Paginate(Sorted(BooksOfCategory(category_id), sort_by), page, per_page)

(***************************************************************************)
(* The read handlers.  A handler runs in a process that has left db_init;  *)
(* its response stays in resp until the client has received it.            *)
(***************************************************************************)
NoResp == [route |-> "none"]

\* search's response to ?q=<q>&category=<category_id> (NULL: parameter absent).
SearchResponse(q, category_id) ==
    LET query == IF q = NULL THEN <<>> ELSE q
        req == [route |-> "search", q |-> q, category |-> category_id]
        failed(exc) == req @@ [status |-> 500, error |-> exc,
                                results |-> <<>>, count |-> 0]
        base == SelectSeq(books, LAMBDA b : TextMatch(b, query))
        filtering == category_id # NULL /\ category_id # <<>> /\ IsDigit(category_id)
        n == IntOf(category_id)
        rows == IF filtering
                THEN SelectSeq(base, LAMBDA b : b.category_id = n.value)
                ELSE base
    IN IF ~QueryGiven(query)
       THEN req @@ [status |-> 200, error |-> "none", results |-> <<>>, count |-> 0]
       ELSE IF filtering /\ ~n.ok THEN failed("ValueError")
       ELSE IF \E i \in DOMAIN rows : ~ToDictOk(rows[i]) THEN failed("AttributeError")
       ELSE req @@ [status |-> 200, error |-> "none",
                    results |-> ToDicts(rows), count |-> Len(rows)]

\* category's template context for /category/<name>?page=&per_page=.
CategoryResponse(category_name, page_arg, per_page_arg) ==
    LET found == CategoryByName(categories, category_name)
        page == ArgInt(page_arg, DefaultPage)
        per_page == ArgInt(per_page_arg, DefaultPerPage)
        req == [route |-> "category", name |-> category_name,
                page |-> page, per_page |-> per_page]
        listing == BooksOfCategory(found[1].id)
        pagination == Paginate(listing, page, per_page)
    IN IF found = <<>>
       THEN req @@ [status |-> 404, books |-> <<>>, total_books |-> 0,
                    pages |-> 0, current_page |-> 0]
       ELSE req @@ [status |-> 200,
                    books |-> pagination.items,
                    total_books |-> Len(listing),
                    pages |-> pagination.pages,
                    current_page |-> pagination.page]

\* api_category_books' JSON for /api/books/<name>?page=&per_page=&sort_by=.
ApiResponse(category_name, page_arg, per_page_arg, sort_by) ==
    LET found == CategoryByName(categories, category_name)
        page == ArgInt(page_arg, DefaultPage)
        per_page == ArgInt(per_page_arg, DefaultPerPage)
        req == [route |-> "api", name |-> category_name, page |-> page,
                per_page |-> per_page, sort_by |-> sort_by]
        pagination == ApiPage(found[1].id, sort_by, page, per_page)
        total_books == Len(Sorted(BooksOfCategory(found[1].id), sort_by))
        failed(code, exc) == req @@ [status |-> code, error |-> exc, books |-> <<>>,
                                      total |-> 0, pages |-> 0, current_page |-> 0]
    IN IF found = <<>> THEN failed(404, "NotFound")
       ELSE IF \E i \in DOMAIN pagination.items : ~ToDictOk(pagination.items[i])
            THEN failed(500, "AttributeError")
       ELSE req @@ [status |-> 200, error |-> "none",
                    books |-> ToDicts(pagination.items),
                    total |-> total_books,
                    pages |-> pagination.pages,
                    current_page |-> page]

(***************************************************************************)
(* Request parameters the client draws from.                               *)
(***************************************************************************)
Queries ==
    {NULL, <<>>, <<"a">>, <<"A", "B">>, <<"_">>, <<"%">>, <<"-">>, <<"4">>}

CategoryParams ==
    {NULL, <<>>, <<"3">>, <<"4">>, <<"0", "3">>, <<"3", "4">>,
     <<"-", "3">>, <<"a">>, <<"SUP2">>}

NameParams == {"Fiction", "Academic", "fiction"}

PageParams == {<<>>} \cup {<<n>> : n \in 1..MaxPage}

PerPageParams == {<<>>} \cup {<<n>> : n \in 1..MaxPerPage}

SortParams == {"relevance", "title", "date", "author"}

Search(p) ==
    /\ pc[p] = "serving"
    /\ resp = NoResp
    /\ \E q \in Queries, category_id \in CategoryParams :
          resp' = SearchResponse(q, category_id)
    /\ UNCHANGED <<categories, books, pc, idx, pending, flushed, writer, error, runs>>

CategoryPage(p) ==
    /\ pc[p] = "serving"
    /\ resp = NoResp
    /\ \E name \in NameParams, page \in PageParams, per_page \in PerPageParams :
          resp' = CategoryResponse(name, page, per_page)
    /\ UNCHANGED <<categories, books, pc, idx, pending, flushed, writer, error, runs>>

ApiCategoryBooks(p) ==
    /\ pc[p] = "serving"
    /\ resp = NoResp
    /\ \E name \in NameParams, page \in PageParams, per_page \in PerPageParams,
          sort_by \in SortParams :
          resp' = ApiResponse(name, page, per_page, sort_by)
    /\ UNCHANGED <<categories, books, pc, idx, pending, flushed, writer, error, runs>>

\* The client receives the response.
Deliver ==
    /\ resp # NoResp
    /\ resp' = NoResp
    /\ UNCHANGED <<categories, books, pc, idx, pending, flushed, writer, error, runs>>

(***************************************************************************)
(* The persisted store a process starts against.  The program has no path  *)
(* that writes a Book (add_book's POST branch is `pass`), so the books are *)
(* those the store was provisioned with; they satisfy the declared schema: *)
(* title and author NOT NULL, category_id a key of table category.         *)
(***************************************************************************)
\* Books the store may hold, by the name of their category.
BookPool ==
    {[title |-> <<"A", "b">>, author |-> <<"b">>, description |-> NULL,
      published_date |-> <<"4">>, category |-> "Fiction"],
     [title |-> <<"a">>, author |-> <<"B">>, description |-> <<"a", "_">>,
      published_date |-> NULL, category |-> "Fiction"],
     [title |-> <<"B">>, author |-> <<"a">>, description |-> <<>>,
      published_date |-> <<"3", "4">>, category |-> "Fiction"],
     [title |-> <<"a", "-">>, author |-> <<"-">>, description |-> NULL,
      published_date |-> <<"4">>, category |-> "Fiction"],
     [title |-> <<"a">>, author |-> <<"b">>, description |-> <<"%">>,
      published_date |-> <<"3">>, category |-> "Thesis"]}

\* Category tables of a store before any seeding: new, or with rows of its own.
InitCategoryTables ==
    {<<>>, <<Category(1, "Poetry"), Category(2, "Fiction")>>}

\* The table after a complete run of db_init against tbl.
Seeded(tbl) ==
    tbl \o InsertAll(tbl, <<>>, SelectSeq(SeedNames, LAMBDA n : n \notin Names(tbl))).rows

\* The book tables of at most n rows over the category table tbl.
BookTables(tbl, n) ==
    LET pool == {b \in BookPool : b.category \in Names(tbl)}
        row(b, i) == Book(i, b.title, b.author, b.description, b.published_date,
                          CategoryByName(tbl, b.category)[1].id)
    IN UNION {{[i \in 1..k |-> row(f[i], i)] : f \in [1..k -> pool]} : k \in 0..n}

Idle ==
    /\ pending = [p \in Procs |-> <<>>]
    /\ flushed = [p \in Procs |-> <<>>]
    /\ writer = 0
    /\ error = [p \in Procs |-> "none"]
    /\ resp = NoResp

\* No process runs yet; the store was never seeded or is already seeded.
Init ==
    /\ categories \in InitCategoryTables \cup {Seeded(t) : t \in InitCategoryTables}
    /\ books \in BookTables(categories, 1)
    /\ pc = [p \in Procs |-> "stopped"]
    /\ idx = [p \in Procs |-> 1]
    /\ runs = [p \in Procs |-> 0]
    /\ Idle

\* Processes that have completed db_init, serving a provisioned catalogue.
QueryInit ==
    /\ categories \in {Seeded(t) : t \in InitCategoryTables}
    /\ books \in BookTables(categories, MaxBooks)
    /\ pc = [p \in Procs |-> "serving"]
    /\ idx = [p \in Procs |-> Len(SeedNames) + 1]
    /\ runs = [p \in Procs |-> 1]
    /\ Idle

SeedNext ==
    \E p \in Procs :
        \/ Start(p)
        \/ SeedStep(p)
        \/ Commit(p)
        \/ SeedIntegrityError(p)
        \/ SeedBusyTimeout(p)

\* Runs of db_init one after another: the steps that raise are left out, and
\* C1 states that they are never enabled.
SeqNext ==
    \E p \in Procs :
        \/ StartAlone(p)
        \/ SeedStep(p)
        \/ Commit(p)

QueryNext ==
    \/ \E p \in Procs :
          \/ Search(p)
          \/ CategoryPage(p)
          \/ ApiCategoryBooks(p)
    \/ Deliver

Next == SeedNext \/ QueryNext

\* The whole program.
Spec == Init /\ [][Next]_vars

\* Its parts: the read handlers change nothing but resp, and of what the
\* seeder changes they read only the committed table categories.
SeedSpec == Init /\ [][SeedNext]_vars

SeqSpec == Init /\ [][SeqNext]_vars

QuerySpec == QueryInit /\ [][QueryNext]_vars

(***************************************************************************)
(* The seeder's properties.                                                *)
(***************************************************************************)
Occurrences(tbl, name) == Cardinality({i \in DOMAIN tbl : tbl[i].name = name})

\* Every name of db_init's list is in the committed table exactly once.
AllSeeded == \A k \in DOMAIN SeedNames : Occurrences(categories, SeedNames[k]) = 1

\* C1: running the seeder any number of times in sequence is idempotent.  No
\* run ends in an exception; a process that has completed db_init leaves a
\* store with exactly one Category for each of the 8 names; and a run against
\* a store so seeded finds every name present at every pass of its loop,
\* inserts nothing and leaves the table as it is.
C1_SeederIdempotent ==
    /\ [](\A p \in Procs :
            /\ error[p] = "none"
            /\ pc[p] = "seeding" => FlushResult(p) \in {"noop", "ok"}
            /\ pc[p] = "serving" => AllSeeded)
    /\ [][AllSeeded =>
            /\ categories' = categories
            /\ \A p \in Procs : pending'[p] = <<>> /\ flushed'[p] = <<>>
         ]_vars

\* C1's case: the seeder has run to its end four times against one store.
C1_Witness ==
    /\ AllSeeded
    /\ \A p \in Procs : pc[p] = "serving" /\ runs[p] >= 2

\* C2: no two committed Category rows share a name, however the processes'
\* check-then-add passes and commits interleave.
C2_NamesUnique ==
    \A i, j \in DOMAIN categories :
        categories[i].name = categories[j].name => i = j

\* C2's case: two seeders raced; one committed the names and the unique
\* constraint refused the other's INSERT.
C2_Witness ==
    /\ categories # <<>>
    /\ \E p \in Procs : error[p] = "IntegrityError"

(***************************************************************************)
(* The read handlers' properties, stated on the response in flight.        *)
(***************************************************************************)
IsSearch == resp.route = "search"
IsListing == resp.route \in {"category", "api"}
IsApi == resp.route = "api"

\* s contains q as a substring, letter case aside.
Contains(s, q) ==
    \E i \in 1..(Len(s) - Len(q) + 1) :
        LowerStr(SubSeq(s, i, i + Len(q) - 1)) = LowerStr(q)

SubstringMatch(book, q) ==
    \/ Contains(book.title, q)
    \/ Contains(book.author, q)
    \/ book.description # NULL /\ Contains(book.description, q)

IdsOf(rows) == {rows[i].id : i \in DOMAIN rows}

Matching(q) == {i \in DOMAIN books : SubstringMatch(books[i], q)}

\* C3: search(q) with a non-empty q and no category filter returns exactly the
\* Books whose title, author or description contains q as a case-insensitive
\* substring (a NULL description never matches), and count is the number of
\* results.
C3_SearchIsSubstringMatch ==
    IsSearch /\ resp.q \notin {NULL, <<>>} /\ resp.category = NULL =>
        /\ resp.status = 200
        /\ IdsOf(resp.results) = {books[i].id : i \in Matching(resp.q)}
        /\ Len(resp.results) = Cardinality(Matching(resp.q))
        /\ resp.count = Len(resp.results)

\* C4: search with an empty or missing q succeeds with results = [] and
\* count = 0, whatever the store holds and whatever the category parameter is.
C4_EmptyQueryShortCircuit ==
    IsSearch /\ resp.q \in {NULL, <<>>} =>
        /\ resp.status = 200
        /\ resp.results = <<>>
        /\ resp.count = 0

\* C4's case: an empty query against a store with books, with a category
\* parameter that is no integer.
C4_Witness ==
    /\ IsSearch
    /\ resp.q = <<>>
    /\ resp.category = <<"SUP2">>
    /\ books # <<>>

\* A string of decimal digits: the shape of a non-negative integer.
IntegerShaped(s) ==
    s \notin {NULL, <<>>} /\ \A i \in DOMAIN s : s[i] \in {"0", "3", "4"}

\* C5: in search with a non-empty q, an integer-shaped category_id restricts
\* the text matches to the books of that category id; any other category_id is
\* ignored (same results and count as without the parameter) and the request
\* does not fail.
C5_CategoryFilter ==
    IsSearch /\ resp.q \notin {NULL, <<>>} =>
        LET unfiltered == SearchResponse(resp.q, NULL)
            wanted == IF IntegerShaped(resp.category)
                      THEN {i \in DOMAIN books :
                               /\ books[i].id \in IdsOf(unfiltered.results)
                               /\ books[i].category_id = IntOf(resp.category).value}
                      ELSE {i \in DOMAIN books :
                               books[i].id \in IdsOf(unfiltered.results)}
        IN /\ resp.status = 200
           /\ IdsOf(resp.results) = {books[i].id : i \in wanted}
           /\ resp.count = Cardinality(wanted)

\* Listing responses: the category's books, counted on the store itself.
CategoryIdOf(name) ==
    (CHOOSE c \in {categories[i] : i \in DOMAIN categories} : c.name = name).id

BookCount(name) ==
    Cardinality({i \in DOMAIN books : books[i].category_id = CategoryIdOf(name)})

CeilDiv(n, d) == CHOOSE k \in 0..n : k * d >= n /\ (k = 0 \/ (k - 1) * d < n)

ItemsOf(r) == r.books

\* C6: for an existing category of N books and page, per_page >= 1, both
\* listing routes return min(per_page, max(0, N - (page-1)*per_page)) items,
\* ceil(N / per_page) pages, total N and the requested page as current page; a
\* page beyond the last is a successful response with no items.
C6_PageArithmetic ==
    IsListing /\ resp.name \in Names(categories) =>
        LET N == BookCount(resp.name)
            rest == N - (resp.page - 1) * resp.per_page
        IN /\ resp.status = 200
           /\ Len(ItemsOf(resp)) = Min(resp.per_page, IF rest > 0 THEN rest ELSE 0)
           /\ resp.pages = CeilDiv(N, resp.per_page)
           /\ (IF IsApi THEN resp.total ELSE resp.total_books) = N
           /\ resp.current_page = resp.page

\* C6's case: a page beyond the last page of a category that has books.
C6_Witness ==
    /\ IsListing
    /\ resp.status = 200
    /\ resp.pages >= 1
    /\ resp.page > resp.pages
    /\ ItemsOf(resp) = <<>>

\* C7: both listing routes answer not-found exactly when no Category has the
\* requested name, whatever page, per_page and sort_by are; every other
\* request succeeds, and an existing category without books gives a successful
\* empty listing with total 0.
C7_NotFoundIffUnknown ==
    IsListing =>
        /\ resp.status = 404 <=> resp.name \notin Names(categories)
        /\ resp.status \in {200, 404}
        /\ resp.name \in Names(categories) /\ BookCount(resp.name) = 0 =>
              /\ resp.status = 200
              /\ ItemsOf(resp) = <<>>
              /\ (IF IsApi THEN resp.total ELSE resp.total_books) = 0

\* C7's case: the name differs from an existing category's only in case.
C7_Witness ==
    /\ IsListing
    /\ resp.name = "fiction"
    /\ "Fiction" \in Names(categories)
    /\ resp.status = 404

\* The serialized books are in the order sort_by asks for.
InOrder(dicts, sort_by) ==
    \A i, j \in DOMAIN dicts : i < j =>
        IF sort_by = "title" THEN ~StrLess(dicts[j].title, dicts[i].title)
        ELSE IF sort_by = "date"
             THEN ~ColumnLess(dicts[i].published_date, dicts[j].published_date)
        ELSE dicts[i].id < dicts[j].id

CategoryBookIds(name) ==
    {books[i].id : i \in {j \in DOMAIN books :
                             books[j].category_id = CategoryIdOf(name)}}

\* C8: api_list_by_category on an existing category succeeds for every sort_by
\* and returns its items by non-decreasing title for "title", by non-increasing
\* published_date (as strings, NULL lowest) for "date", and in the store's
\* insertion order otherwise; sort_by changes neither total nor pages nor
\* which books the listing holds.
C8_SortOrder ==
    IsApi /\ resp.name \in Names(categories) =>
        LET plain == ApiResponse(resp.name, <<resp.page>>, <<resp.per_page>>,
                                 "relevance")
        IN /\ resp.status = 200
           /\ InOrder(resp.books, resp.sort_by)
           /\ resp.total = plain.total
           /\ resp.pages = plain.pages
           /\ Len(resp.books) = Len(plain.books)
           /\ IdsOf(resp.books) \subseteq CategoryBookIds(resp.name)
           /\ resp.pages <= 1 /\ resp.page = 1 =>
                 IdsOf(resp.books) = CategoryBookIds(resp.name)

\* C8's case: a title-sorted page whose order differs from the store's.
C8_Witness ==
    /\ IsApi
    /\ resp.status = 200
    /\ resp.sort_by = "title"
    /\ Len(resp.books) >= 2
    /\ resp.books[1].id > resp.books[2].id

Dicts(r) == IF r.route = "search" THEN r.results ELSE r.books

BookById(id) == CHOOSE b \in {books[i] : i \in DOMAIN books} : b.id = id

\* C9: in every response of search and api_list_by_category each serialized
\* book's `category` is the name of the one Category whose id is the book's
\* category_id, and serialization never fails for want of that Category.
C9_CategoryIsOwnerName ==
    IsSearch \/ IsApi =>
        /\ resp.error # "AttributeError"
        /\ \A i \in DOMAIN Dicts(resp) :
              LET d == Dicts(resp)[i]
                  owners == {k \in DOMAIN categories :
                                categories[k].id = BookById(d.id).category_id}
              IN /\ Cardinality(owners) = 1
                 /\ \A k \in owners : d.category = categories[k].name

\* C9's case: one response serializes books of two categories.
C9_Witness ==
    /\ IsSearch
    /\ resp.status = 200
    /\ \E i, j \in DOMAIN resp.results :
          resp.results[i].category # resp.results[j].category

\* Pages 1..p of one listing, concatenated.
RECURSIVE ConcatPages(_, _, _, _)
ConcatPages(name, per_page, sort_by, p) ==
    IF p = 0 THEN <<>>
    ELSE ConcatPages(name, per_page, sort_by, p - 1)
            \o ApiResponse(name, <<p>>, per_page, sort_by).books

\* C10: sorting precedes slicing, so pages partition the listing.  For the
\* category, per_page and sort_by of a successful response, the pages 1..P of
\* api_list_by_category against the unchanged store, P the reported number of
\* pages, concatenate to a list that holds every Book of the category exactly
\* once and no other Book, is as a whole in the requested order and is as long
\* as the reported total; the response is that list's slice for its page.
C10_PagesPartition ==
    IsApi /\ resp.status = 200 =>
        LET all == ConcatPages(resp.name, <<resp.per_page>>, resp.sort_by, resp.pages)
            from == (resp.page - 1) * resp.per_page + 1
        IN /\ Len(all) = resp.total
           /\ IdsOf(all) = CategoryBookIds(resp.name)
           /\ \A i, j \in DOMAIN all : all[i].id = all[j].id => i = j
           /\ InOrder(all, resp.sort_by)
           /\ resp.books = SubSeq(all, from, Min(from + resp.per_page - 1, Len(all)))

\* C10's case: the book inserted first is served on page 2 of a sorted listing.
C10_Witness ==
    /\ IsApi
    /\ resp.status = 200
    /\ resp.sort_by \in {"title", "date"}
    /\ resp.page = 2
    /\ resp.books # <<>>
    /\ resp.books[1].id = 1

====
